---- MODULE Spec2Model ----
(***************************************************************************)
(* Model of src/src/App.tsx: the state of the App component (useState      *)
(* cells), its event handlers, and the asynchronous calculateSolar call    *)
(* with its two suspension points (await fetch, await response.json()).    *)
(*                                                                         *)
(* Steps.  An action is one turn of the event loop: an event handler, or   *)
(* the continuation of calculateSolar after an await, together with the    *)
(* render React flushes before the next event is dispatched.  A handler    *)
(* therefore always reads the state of the latest render, and a suspended  *)
(* calculateSolar keeps the position and shading of the render it was      *)
(* started from.  Response bodies either have the documented shape (E_y    *)
(* and twelve E_m, all numbers) or make the continuation throw.            *)
(*                                                                         *)
(* Numbers.  Coordinates and tilt figures are fixed-point integers in      *)
(* units of 10^-6 degree; energy figures (E_y, E_m) are fixed-point        *)
(* integers in units of 10^-2 kWh.  A text (the value of an                *)
(* <input type="number">, or the output of toFixed) is <<>> for the empty  *)
(* string and <<m, d>> for the decimal numeral m * 10^-d written with d    *)
(* fraction digits, so "48.3" = <<483, 1>> and "48.30000" = <<4830000, 5>> *)
(* are different texts that parse to the same number.                      *)
(***************************************************************************)
EXTENDS Integers, Sequences, FiniteSets

VARIABLES
    position,   \* useState<[number, number] | null>(null)        line 45
    lat,        \* useState('') latitude text                     line 46
    lng,        \* useState('') longitude text                    line 47
    tilt,       \* useState(35), whole degrees                    line 48
    azimuth,    \* useState(180), whole degrees                   line 49
    shading,    \* useState(0), percent                           line 50
    loading,    \* useState(false)                                line 51
    error,      \* useState(''), the message shown                line 52
    solarData,  \* useState<SolarData | null>(null)               line 53
    inflight,   \* the suspended calculateSolar invocations, each with the
                \* values its closure captured and the await it is parked at
    console,    \* what console.warn / console.error have logged
    outcome     \* how the most recent calculateSolar invocation has ended so far

vars == <<position, lat, lng, tilt, azimuth, shading, loading, error,
          solarData, inflight, console, outcome>>

-----------------------------------------------------------------------------
(* Scales and bounds *)

DegExp == 6     \* coordinates carry 6 fraction digits
KwhExp == 2     \* energy figures carry 2 fraction digits
Scale == 10^DegExp
KwhScale == 10^KwhExp

\* the most calculateSolar invocations the model lets be suspended at once
MaxInflight == 2

null == <<>>

Abs(x) == IF x < 0 THEN -x ELSE x

-----------------------------------------------------------------------------
(* Number <-> text conversions *)

\* x / 10^k rounded to the nearest integer, halves away from zero
\* (Number.prototype.toFixed picks the larger n for |x|).
RoundHalfAway(x, k) ==
    IF x >= 0 THEN (x + (10^k) \div 2) \div (10^k)
              ELSE -((-x + (10^k) \div 2) \div (10^k))

\* x.toFixed(d) for a number carrying e fraction digits
ToFixed(x, e, d) == <<RoundHalfAway(x, e - d), d>>

\* parseFloat(text): <<>> is NaN, <<v>> the number v in units of 10^-6
ParseFloat(t) == IF t = <<>> THEN <<>> ELSE <<t[1] * 10^(DegExp - t[2])>>

IsNaN(n) == n = <<>>

\* Math.round(x): floor(x + 0.5), in whole degrees
MathRound(x) == (x + Scale \div 2) \div Scale

-----------------------------------------------------------------------------
(* Inputs the environment can supply *)

\* e.latlng of a map click.  Leaflet reports the unwrapped coordinate of the
\* clicked point: latitude stays inside (-90, 90), but on a copy of the world
\* left or right of the central one the longitude lies outside [-180, 180].
Munich == <<48300004, 10451500>>        \* (48.300004, 10.4515)
Sydney == <<-34600000, 151200000>>      \* (-34.6, 151.2)
Equator == <<0, 190000000>>             \* (0.0, 190.0): one world copy to the east

\* twelve E_m values with June (index 6) above December (index 12), and flat
SummerPeak == <<3000, 4500, 8000, 11000, 13000, 14000, 13500, 12000, 9000, 6000, 3500, 2500>>
Flat == <<9000, 9000, 9000, 9000, 9000, 9000, 9000, 9000, 9000, 9000, 9000, 9000>>

\* the parsed JSON of a response with the documented shape
Data(m, ey) == [monthly |-> m, E_y |-> ey]

Malformed == <<>>   \* a body response.json() rejects, or one without
                    \* outputs.monthly.fixed / outputs.totals.fixed (TypeError)
Low == <<Data(SummerPeak, 50000)>>          \* E_y =  500.00
AtMin == <<Data(SummerPeak, 80000)>>        \* E_y =  800.00
AtMax == <<Data(Flat, 250000)>>             \* E_y = 2500.00
High == <<Data(Flat, 250001)>>              \* E_y = 2500.01

\* The inputs of a run: the map clicks, the texts typed into the two
\* <input type="number"> fields (their e.target.value), the values the three
\* range sliders are moved to, and the response bodies the service sends.
\* QueryInputs exercises the query with every kind of body from a northern, a
\* southern and an equatorial position; CoordInputs exercises the coordinate
\* handlers with texts that are empty, in range and out of range.
QueryInputs ==
    [clicks |-> {Munich, Sydney, Equator},
     typedLat |-> {<<>>},                                   \* ""
     typedLng |-> {<<>>},
     tilts |-> {20, 35},
     azimuths |-> {90, 180},
     shadings |-> {0, 10},
     bodies |-> {Malformed, Low, AtMin, AtMax, High}]

CoordInputs ==
    [clicks |-> {Munich, Equator},
     typedLat |-> {<<>>, <<-33, 0>>, <<-9000001, 5>>, <<91, 0>>},  \* "", "-33", "-90.00001", "91"
     typedLng |-> {<<>>, <<-180, 0>>, <<1512, 1>>, <<-181, 0>>},   \* "", "-180", "151.2", "-181"
     tilts |-> {20, 35},
     azimuths |-> {90, 180},
     shadings |-> {0},
     bodies |-> {Malformed, AtMin}]

\* a Response as fetch resolves it
Responses(bodies) == [ok : BOOLEAN, body : bodies]

-----------------------------------------------------------------------------
(* Messages *)

NoError == [text |-> "", value |-> <<>>]
NoLocationError ==
    [text |-> "Bitte waehlen Sie einen Standort auf der Karte.", value |-> <<>>]
FetchError ==
    [text |-> "Fehler beim Abrufen der Solardaten. Bitte versuchen Sie es erneut.",
     value |-> <<>>]
\* the template literal of line 102 with yearlyIrradiation.toFixed(0) in it
PlausibilityWarning(ey) ==
    [text |-> "Warnung: Berechneter Wert liegt ausserhalb des erwarteten Bereichs (800-2500).",
     value |-> ToFixed(ey, KwhExp, 0)]

-----------------------------------------------------------------------------
(* Rendering: what the JSX shows for the current state *)

\* variant: the button forgets the loading flag
DisabledWithoutLoading == position = null

\* <button disabled={loading || !position}>
Disabled == loading \/ position = null

\* {error && ...}
ShowsError == error.text # ""

\* {solarData && ...}
ShowsResult == solarData # null

\* {tilt !== Math.round(solarData.optimalTilt) && ...}
ShowsSuggestion ==
    /\ solarData # null
    /\ tilt # MathRound(solarData[1].optimalTilt)

\* {Math.abs(tilt - solarData.optimalTilt)}, in units of 10^-6
ShownImprovement == Abs(tilt * Scale - solarData[1].optimalTilt)

\* {solarData.optimalTilt.toFixed(0)}
ShownOptimalTilt == ToFixed(solarData[1].optimalTilt, DegExp, 0)

-----------------------------------------------------------------------------
Init ==
    /\ position = null
    /\ lat = <<>>
    /\ lng = <<>>
    /\ tilt = 35
    /\ azimuth = 180
    /\ shading = 0
    /\ loading = FALSE
    /\ error = NoError
    /\ solarData = null
    /\ inflight = <<>>
    /\ console = {}
    /\ outcome = "none"

-----------------------------------------------------------------------------
(* Coordinate handlers *)

handlePositionChange(pos) ==
    /\ position' = pos
    /\ lat' = ToFixed(pos[1], DegExp, 5)
    /\ lng' = ToFixed(pos[2], DegExp, 5)
    /\ UNCHANGED <<tilt, azimuth, shading, loading, error, solarData,
                   inflight, console, outcome>>

\* LocationMarker: click(e) { setPosition([e.latlng.lat, e.latlng.lng]) }
MapClick(clicks) == \E ll \in clicks : handlePositionChange(ll)

\* variant: the upper latitude bound is left out of the test
ValidLatLngNoUpperLat(latNum, lngNum) ==
    /\ ~IsNaN(latNum)
    /\ ~IsNaN(lngNum)
    /\ latNum[1] >= -90 * Scale
    /\ lngNum[1] >= -180 * Scale
    /\ lngNum[1] <= 180 * Scale

\* the test of line 64
ValidLatLng(latNum, lngNum) ==
    /\ ~IsNaN(latNum)
    /\ ~IsNaN(lngNum)
    /\ latNum[1] >= -90 * Scale
    /\ latNum[1] <= 90 * Scale
    /\ lngNum[1] >= -180 * Scale
    /\ lngNum[1] <= 180 * Scale

\* onBlur of either text field
handleLatLngInput ==
    LET latNum == ParseFloat(lat)
        lngNum == ParseFloat(lng)
    IN  /\ position' = IF ValidLatLng(latNum, lngNum)
                          THEN <<latNum[1], lngNum[1]>>
                          ELSE position
        /\ UNCHANGED <<lat, lng, tilt, azimuth, shading, loading, error,
                       solarData, inflight, console, outcome>>

\* onChange={(e) => setLat(e.target.value)}
ChangeLat(texts) ==
    \E t \in texts :
        /\ lat' = t
        /\ UNCHANGED <<position, lng, tilt, azimuth, shading, loading, error,
                       solarData, inflight, console, outcome>>

\* onChange={(e) => setLng(e.target.value)}
ChangeLng(texts) ==
    \E t \in texts :
        /\ lng' = t
        /\ UNCHANGED <<position, lat, tilt, azimuth, shading, loading, error,
                       solarData, inflight, console, outcome>>

-----------------------------------------------------------------------------
(* Panel configuration sliders *)

ChangeTilt(values) ==
    \E v \in values :
        /\ tilt' = v
        /\ UNCHANGED <<position, lat, lng, azimuth, shading, loading, error,
                       solarData, inflight, console, outcome>>

ChangeAzimuth(values) ==
    \E v \in values :
        /\ azimuth' = v
        /\ UNCHANGED <<position, lat, lng, tilt, shading, loading, error,
                       solarData, inflight, console, outcome>>

ChangeShading(values) ==
    \E v \in values :
        /\ shading' = v
        /\ UNCHANGED <<position, lat, lng, tilt, azimuth, loading, error,
                       solarData, inflight, console, outcome>>

-----------------------------------------------------------------------------
(* calculateSolar *)

RemoveAt(seq, i) == SubSeq(seq, 1, i - 1) \o SubSeq(seq, i + 1, Len(seq))

\* the URLSearchParams of lines 78-87, as numbers; the request leaves the
\* program with `fetch` and the response is not bound to it
Params ==
    [lat |-> position[1], lon |-> position[2], peakpower |-> 1, loss |-> shading,
     angle |-> tilt, aspect |-> azimuth - 180]

\* a suspended invocation: what its closure reads after the awaits (position,
\* shading), the await it is parked at, and the Response once fetch resolved
Invocation ==
    [position |-> position, shading |-> shading,
     awaiting |-> "fetch", response |-> <<>>]

\* variant: the guard of line 70 is missing
calculateSolarUnguarded ==
    /\ loading' = TRUE
    /\ error' = NoError
    /\ inflight' = Append(inflight, Invocation)
    /\ outcome' = "pending"
    /\ UNCHANGED <<position, lat, lng, tilt, azimuth, shading, solarData, console>>

\* lines 70-90: the guard, the two resets and the request, up to `await fetch`
calculateSolar ==
    IF position = null
    THEN /\ error' = NoLocationError
         /\ outcome' = "noLocation"
         /\ UNCHANGED <<position, lat, lng, tilt, azimuth, shading, loading,
                        solarData, inflight, console>>
    ELSE /\ loading' = TRUE
         /\ error' = NoError
         /\ inflight' = Append(inflight, Invocation)
         /\ outcome' = "pending"
         /\ UNCHANGED <<position, lat, lng, tilt, azimuth, shading, solarData,
                        console>>

\* onClick={calculateSolar} of a button that is not disabled
ClickCalculate ==
    /\ ~Disabled
    /\ Len(inflight) < MaxInflight
    /\ calculateSolar

\* variant: setLoading(false) sits at the end of the try block, not in finally
FailureKeepsLoading(i) ==
    /\ error' = FetchError
    /\ console' = console \cup {"error"}
    /\ inflight' = RemoveAt(inflight, i)
    /\ outcome' = "failed"
    /\ UNCHANGED <<position, lat, lng, tilt, azimuth, shading, solarData, loading>>

\* lines 121-126: catch, then finally
Failure(i) ==
    /\ error' = FetchError
    /\ console' = console \cup {"error"}
    /\ loading' = FALSE
    /\ inflight' = RemoveAt(inflight, i)
    /\ outcome' = "failed"
    /\ UNCHANGED <<position, lat, lng, tilt, azimuth, shading, solarData>>

\* variant: the two limits themselves count as implausible
ImplausibleAtLimits(yearlyIrradiation) ==
    \/ yearlyIrradiation <= 800 * KwhScale
    \/ yearlyIrradiation >= 2500 * KwhScale

\* the test of line 101
Implausible(yearlyIrradiation) ==
    \/ yearlyIrradiation < 800 * KwhScale
    \/ yearlyIrradiation > 2500 * KwhScale

\* lines 106-110: the seasonal comparison, June is monthlyData[5] (index 6
\* here), December monthlyData[11] (index 12 here)
SeasonUnexpected(latitude, monthlyData) ==
    LET isNorthernHemisphere == latitude > 0
        summerMonth == IF isNorthernHemisphere THEN monthlyData[6] ELSE monthlyData[12]
        winterMonth == IF isNorthernHemisphere THEN monthlyData[12] ELSE monthlyData[6]
    IN  summerMonth <= winterMonth

\* variant: latitude 0 counts as northern
ResultZeroNorth(q, data) ==
    [yearlyIrradiation |-> data.E_y,
     monthlyData |-> data.monthly,
     optimalTilt |-> Abs(q.position[1]),
     optimalAzimuth |-> IF q.position[1] >= 0 THEN 180 ELSE 0,
     loss |-> q.shading]

\* variant: the continuation reads the current state, not its closure
ResultFromCurrentState(q, data) ==
    [yearlyIrradiation |-> data.E_y,
     monthlyData |-> data.monthly,
     optimalTilt |-> Abs(position[1]),
     optimalAzimuth |-> IF position[1] > 0 THEN 180 ELSE 0,
     loss |-> shading]

\* the object of lines 114-120
Result(q, data) ==
    [yearlyIrradiation |-> data.E_y,
     monthlyData |-> data.monthly,
     optimalTilt |-> Abs(q.position[1]),
     optimalAzimuth |-> IF q.position[1] > 0 THEN 180 ELSE 0,
     loss |-> q.shading]

\* lines 97-120, then finally
Success(i, data) ==
    LET q == inflight[i]
    IN  /\ error' = IF Implausible(data.E_y) THEN PlausibilityWarning(data.E_y)
                                              ELSE error
        /\ console' = IF SeasonUnexpected(q.position[1], data.monthly)
                         THEN console \cup {"warn"}
                         ELSE console
        /\ solarData' = <<Result(q, data)>>
        /\ loading' = FALSE
        /\ inflight' = RemoveAt(inflight, i)
        /\ outcome' = "succeeded"
        /\ UNCHANGED <<position, lat, lng, tilt, azimuth, shading>>

\* `await fetch(apiUrl)` rejects: a network error
FetchRejects ==
    \E i \in DOMAIN inflight :
        /\ inflight[i].awaiting = "fetch"
        /\ Failure(i)

\* `await fetch(apiUrl)` resolves with a Response; lines 92-96
FetchResolves(bodies) ==
    \E i \in DOMAIN inflight, r \in Responses(bodies) :
        /\ inflight[i].awaiting = "fetch"
        /\ IF ~r.ok
           THEN Failure(i)
           ELSE /\ inflight' = [inflight EXCEPT ![i].awaiting = "json",
                                                ![i].response = <<r>>]
                /\ UNCHANGED <<position, lat, lng, tilt, azimuth, shading,
                               loading, error, solarData, console, outcome>>

\* `await response.json()` settles; a body that does not parse, or that lacks
\* outputs.monthly.fixed / outputs.totals.fixed, throws into the catch
JsonSettles ==
    \E i \in DOMAIN inflight :
        /\ inflight[i].awaiting = "json"
        /\ LET body == inflight[i].response[1].body
           IN  IF body = <<>> THEN Failure(i) ELSE Success(i, body[1])

-----------------------------------------------------------------------------
NextIn(in) ==
    \/ MapClick(in.clicks)
    \/ handleLatLngInput
    \/ ChangeLat(in.typedLat)
    \/ ChangeLng(in.typedLng)
    \/ ChangeTilt(in.tilts)
    \/ ChangeAzimuth(in.azimuths)
    \/ ChangeShading(in.shadings)
    \/ ClickCalculate
    \/ FetchRejects
    \/ FetchResolves(in.bodies)
    \/ JsonSettles

Next == NextIn(QueryInputs)

Spec == Init /\ [][Next]_vars

NextCoord == NextIn(CoordInputs)

SpecCoord == Init /\ [][NextCoord]_vars

\* calculateSolar called although the button is disabled for want of a
\* position (the handler itself carries the guard of line 70)
CallWithoutPosition ==
    /\ position = null
    /\ calculateSolar

NextDirect == Next \/ CallWithoutPosition

SpecDirect == Init /\ [][NextDirect]_vars

-----------------------------------------------------------------------------
(* Reading the state *)

\* invocation i leaves with a body that carries the documented data
SucceedsAt(i) ==
    /\ inflight[i].awaiting = "json"
    /\ inflight[i].response[1].body # Malformed
    /\ inflight' = RemoveAt(inflight, i)

\* the decimal numeral t denotes a number in [lo, hi]
TextDenotes(t, lo, hi) ==
    /\ t # <<>>
    /\ lo * 10^t[2] <= t[1]
    /\ t[1] <= hi * 10^t[2]

\* x (units of 10^-6) to the nearest whole degree
NearestDegree(x) ==
    CHOOSE n \in 0..91 : 2 * n * Scale - Scale <= 2 * x /\ 2 * x < 2 * n * Scale + Scale

InRange(pos) ==
    /\ -90 * Scale <= pos[1] /\ pos[1] <= 90 * Scale
    /\ -180 * Scale <= pos[2] /\ pos[2] <= 180 * Scale

-----------------------------------------------------------------------------
(* Claims *)

\* C1: a calculation that ended in failure leaves no result behind, so a
\* result is present only if the most recent completed query succeeded.
C1_NoResultAfterFailure == outcome = "failed" => solarData = null

\* C2: at most one query is in flight at any time, and while one is in flight
\* loading is true and the trigger is disabled.
C2_AtMostOneInFlight ==
    /\ Len(inflight) <= 1
    /\ inflight # <<>> => (loading /\ Disabled)

C2_Witness ==
    /\ Len(inflight) = 1
    /\ inflight[1].awaiting = "json"
    /\ inflight[1].position # position
    /\ Disabled

\* C3: calculateSolar invoked with no Position sets the "no location" message,
\* sends nothing, does not set loading, and leaves the result, the Position and
\* the panel configuration as they were.
C3_NoPositionNoCall ==
    [][CallWithoutPosition =>
          /\ error' = NoLocationError
          /\ inflight' = inflight
          /\ ~loading'
          /\ loading' = loading
          /\ solarData' = solarData
          /\ position' = position
          /\ <<tilt, azimuth, shading>>' = <<tilt, azimuth, shading>>]_vars

C3_Witness ==
    /\ position = null
    /\ outcome = "noLocation"
    /\ error = NoLocationError
    /\ ~loading
    /\ inflight = <<>>

\* C4: leaving a text field replaces Position by the parsed pair exactly when
\* both texts are numerals with latitude in [-90, 90] and longitude in
\* [-180, 180]; otherwise Position stays; no message is set and both texts
\* keep what was typed.
C4_TextEntry ==
    [][handleLatLngInput =>
          /\ IF TextDenotes(lat, -90, 90) /\ TextDenotes(lng, -180, 180)
                THEN position' = <<ParseFloat(lat)[1], ParseFloat(lng)[1]>>
                ELSE position' = position
          /\ error' = error
          /\ lat' = lat
          /\ lng' = lng]_vars

C4_Witness ==
    /\ position = <<-33 * Scale, -180 * Scale>>
    /\ lat = <<-33, 0>>
    /\ lng = <<-180, 0>>

\* C5: after a query has failed, loading is false, a message is shown and the
\* trigger can be pressed again; loading is true only while a response is
\* outstanding.
C5_FailureNonFatal ==
    /\ outcome = "failed" =>
          /\ ~loading
          /\ ShowsError
          /\ position # null => ~Disabled
          /\ ENABLED ClickCalculate
    /\ loading => inflight # <<>>

C5_Witness ==
    /\ outcome = "failed"
    /\ error = FetchError
    /\ position # null
    /\ solarData # null

\* C6: a successful response stores yearlyIrradiation = E_y; outside
\* [800, 2500] a warning is shown with the result, inside (limits included)
\* no message is shown.
C6_YearlyAndWarning ==
    [][\A i \in DOMAIN inflight :
          SucceedsAt(i) =>
              LET ey == inflight[i].response[1].body[1].E_y
              IN  /\ solarData' # null
                  /\ solarData'[1].yearlyIrradiation = ey
                  /\ (ey < 80000 \/ ey > 250000) =>
                        /\ error' \notin {NoError, FetchError, NoLocationError}
                        /\ error'.value = <<(ey + 50) \div 100, 0>>
                  /\ (80000 <= ey /\ ey <= 250000) => error' = NoError]_vars

C6_Witness ==
    /\ outcome = "succeeded"
    /\ solarData # null
    /\ solarData[1].yearlyIrradiation = 50000
    /\ error = PlausibilityWarning(50000)

\* C7: a stored result has optimalTilt = |latitude of the query| and
\* optimalAzimuth = 180 if that latitude is > 0, else 0; every body with the
\* documented data succeeds and is stored as sent, whatever the plausibility
\* and seasonal checks find.
C7_OptimalFields ==
    [][\A i \in DOMAIN inflight :
          SucceedsAt(i) =>
              LET latitude == inflight[i].position[1]
                  data == inflight[i].response[1].body[1]
              IN  /\ outcome' = "succeeded"
                  /\ solarData' # null
                  /\ solarData'[1].optimalTilt = Abs(latitude)
                  /\ solarData'[1].optimalAzimuth \in {0, 180}
                  /\ solarData'[1].optimalAzimuth = 180 <=> latitude > 0
                  /\ solarData'[1].monthlyData = data.monthly]_vars

C7_Witness ==
    /\ outcome = "succeeded"
    /\ solarData # null
    /\ solarData[1].optimalTilt = 0
    /\ solarData[1].optimalAzimuth = 0
    /\ "warn" \in console
    /\ ShowsError

\* C8: with a result present the suggestion line is shown exactly when the
\* tilt differs from optimalTilt rounded to the nearest degree, and the figure
\* is |tilt - optimalTilt|: 28 for tilt 20 and an optimalTilt that rounds to
\* 48, no line for tilt 35 and an optimalTilt that rounds to 35.
C8_SuggestionFigure ==
    solarData # null =>
        LET rounded == NearestDegree(solarData[1].optimalTilt)
        IN  /\ ShowsSuggestion <=> tilt # rounded
            /\ (tilt = 20 /\ rounded = 48) => ShownImprovement = 28 * Scale
            /\ (tilt = 35 /\ rounded = 35) => ~ShowsSuggestion

\* C9: Position is absent or has latitude in [-90, 90] and longitude in
\* [-180, 180], and once set it is never absent again.
C9_PositionInRange ==
    [][/\ position' = null \/ InRange(position')
       /\ position # null => position' # null]_vars

\* C10: the stored result comes from the position and shading the invocation
\* captured when it was triggered, which stay as captured while it is in
\* flight; changing the inputs never changes a stored result.
C10_CapturedInputs ==
    [][/\ Len(inflight') > Len(inflight) =>
             /\ inflight'[Len(inflight')].position = position
             /\ inflight'[Len(inflight')].shading = shading
       /\ Len(inflight') = Len(inflight) =>
             /\ solarData' = solarData
             /\ \A i \in DOMAIN inflight :
                   /\ inflight'[i].position = inflight[i].position
                   /\ inflight'[i].shading = inflight[i].shading
       /\ \A i \in DOMAIN inflight :
             SucceedsAt(i) =>
                 /\ solarData'[1].loss = inflight[i].shading
                 /\ solarData'[1].optimalTilt = Abs(inflight[i].position[1])
                 /\ solarData'[1].optimalAzimuth =
                        IF inflight[i].position[1] > 0 THEN 180 ELSE 0]_vars

C10_Witness ==
    /\ outcome = "succeeded"
    /\ solarData # null
    /\ solarData[1].loss # shading
    /\ solarData[1].optimalTilt # Abs(position[1])
    /\ solarData[1].optimalAzimuth # (IF position[1] > 0 THEN 180 ELSE 0)

====
